---------------------------- MODULE Spec2Model ----------------------------
(***************************************************************************)
(* A model of the speech-driven spelling-bee recognition pipeline of       *)
(* src/hooks/useSpeechRecognition.ts: the token classifier, the similarity *)
(* matcher, the transcript parser and the session controller.             *)
(*                                                                         *)
(* A JavaScript string is a sequence of one-character strings, so that     *)
(* lowercasing, trimming, splitting and the positional comparison of the   *)
(* matcher are computed and not assumed.  A value of type `string | null`  *)
(* is Null (the empty tuple) or Some(v) (the one-element tuple <<v>>).     *)
(***************************************************************************)
EXTENDS Integers, Sequences, FiniteSets, TLC

VARIABLES
    \* ---- state of the hook useSpeechRecognition (React state and refs)
    isListening,      \* useState(false)
    transcript,       \* useState('')
    fullTranscript,   \* useState('')
    characters,       \* useState<string[]>([])
    error,            \* useState<string | null>(null)
    isSupported,      \* useState(true)
    spellingState,    \* useState<SpellingBeeState>
    targetWord,       \* the hook's argument (a prop of the consumer)
    targetWordRef,    \* useRef(targetWord)
    recognitionRef,   \* useRef<SpeechRecognition | null>(null)
    \* ---- the platform: the recognizer behind recognitionRef, the timer queue
    recognizer,       \* "inactive" | "starting" | "running" | "stopping" | "ending"
    results,          \* the recognizer's SpeechRecognitionResultList of the session
    timers,           \* number of pending auto-stop timeouts
    request,          \* the call the last step made on the recognizer, or "none"
    lastEvent,        \* the handler that ran last
    \* ---- what an observer of the session keeps track of
    staleTimers,      \* pending auto-stop timeouts set before the last session end
    sessionTarget,    \* targetWordRef when the recognizer last started a session
    errorEvent,       \* event.error of the error event of the last step, or "none"
    \* ---- state of the quiz component SpellingQuiz, the hook's consumer
    currentIndex,         \* useState(0)
    score,                \* useState(0)
    showResult,           \* useState(false)
    isCorrect,            \* useState(false)
    hasChecked,           \* useState(false)
    showFormatReminder,   \* useState(false)
    submitTimers,         \* pending timeouts of handleSubmit, each with the
                          \* checkAnswer closure of the render that set it
    \* ---- state of the hook useDictionary and of the dictionary service
    word,                 \* the hook's argument
    wordData,             \* useState<CachedWordData | null>(null)
    isLoading,            \* useState(false)
    pending,              \* the words of the fetchWordData calls in flight
    cache,                \* the keys of the localStorage cache
    \* ---- inputs and outputs of the functions called on their own
    spoken, target, similar,      \* wordsSoundSimilar(spoken, target)
    fullText, parsed              \* processTranscript(fullText); has it run?

hookVars    == <<isListening, transcript, fullTranscript, characters, error,
                 isSupported, spellingState, targetWord, targetWordRef,
                 recognitionRef>>
envVars     == <<recognizer, results, timers, request, lastEvent>>
traceVars   == <<staleTimers, sessionTarget, errorEvent>>
quizVars    == <<currentIndex, score, showResult, isCorrect, hasChecked,
                 showFormatReminder, submitTimers>>
dictVars    == <<word, wordData, isLoading, pending, cache>>
simVars     == <<spoken, target, similar>>
parserVars  == <<fullText, parsed>>
vars        == <<hookVars, envVars, traceVars, quizVars, dictVars, simVars,
                 parserVars>>

---------------------------------------------------------------------------
(* Values of type T | null.                                                *)
Null == <<>>
Some(v) == <<v>>

(* JavaScript strings, character by character.                             *)
LowerAlphabet ==
    <<"a", "b", "c", "d", "e", "f", "g", "h", "i", "j", "k", "l", "m",
      "n", "o", "p", "q", "r", "s", "t", "u", "v", "w", "x", "y", "z">>
UpperAlphabet ==
    <<"A", "B", "C", "D", "E", "F", "G", "H", "I", "J", "K", "L", "M",
      "N", "O", "P", "Q", "R", "S", "T", "U", "V", "W", "X", "Y", "Z">>

LowerLetters == {LowerAlphabet[i] : i \in 1..26}
UpperLetters == {UpperAlphabet[i] : i \in 1..26}

\* /[a-z]/.test(c) for a one-character string c
IsLowerAZ(c) == c \in LowerLetters

\* the white space that trim() and split(/\s+/) look for
IsWhiteSpace(c) == c \in {" "}

\* the lowercase of each uppercase letter, and the converse
LowerOf == [c \in UpperLetters |->
              LowerAlphabet[CHOOSE i \in 1..26 : UpperAlphabet[i] = c]]
UpperOf == [c \in LowerLetters |->
              UpperAlphabet[CHOOSE i \in 1..26 : LowerAlphabet[i] = c]]

toLowerChar(c) == IF c \in UpperLetters THEN LowerOf[c] ELSE c

toUpperChar(c) == IF c \in LowerLetters THEN UpperOf[c] ELSE c

\* String.prototype.toLowerCase
toLowerCase(s) == [i \in 1..Len(s) |-> toLowerChar(s[i])]

\* String.prototype.toUpperCase
toUpperCase(s) == [i \in 1..Len(s) |-> toUpperChar(s[i])]

\* String.prototype.trim
trim(s) ==
    LET keep == {i \in 1..Len(s) : ~IsWhiteSpace(s[i])}
    IN  IF keep = {} THEN <<>>
        ELSE LET lo == CHOOSE i \in keep : \A j \in keep : i <= j
                 hi == CHOOSE i \in keep : \A j \in keep : j <= i
             IN  SubSeq(s, lo, hi)

\* s.replace(/[^a-z]/g, '')
RECURSIVE stripNonAZ(_)
stripNonAZ(s) ==
    IF s = <<>> THEN <<>>
    ELSE IF IsLowerAZ(Head(s)) THEN <<Head(s)>> \o stripNonAZ(Tail(s))
    ELSE stripNonAZ(Tail(s))

\* a.startsWith(b)
startsWith(a, b) == Len(b) <= Len(a) /\ SubSeq(a, 1, Len(b)) = b

\* s.split(/\s+/): the pieces between the runs of white space; a leading or
\* a trailing run leaves an empty piece at that end
RECURSIVE splitFrom(_, _, _)
splitFrom(s, i, piece) ==
    IF i > Len(s) THEN <<piece>>
    ELSE IF IsWhiteSpace(s[i])
         THEN IF i > 1 /\ IsWhiteSpace(s[i - 1])
              THEN splitFrom(s, i + 1, piece)
              ELSE <<piece>> \o splitFrom(s, i + 1, <<>>)
         ELSE splitFrom(s, i + 1, Append(piece, s[i]))

split(s) == splitFrom(s, 1, <<>>)

\* .filter(t => t): the empty string is falsy
filterNonEmpty(ts) == SelectSeq(ts, LAMBDA t : t # <<>>)

---------------------------------------------------------------------------
(* The token classifier.                                                   *)

SPECIAL_CHAR_MAP ==
       (<<"s", "p", "a", "c", "e">> :> " ")
    @@ (<<"a", "p", "o", "s", "t", "r", "o", "p", "h", "e">> :> "'")
    @@ (<<"q", "u", "o", "t", "e">> :> "'")
    @@ (<<"h", "y", "p", "h", "e", "n">> :> "-")
    @@ (<<"d", "a", "s", "h">> :> "-")
    @@ (<<"p", "e", "r", "i", "o", "d">> :> ".")
    @@ (<<"d", "o", "t">> :> ".")
    @@ (<<"c", "o", "m", "m", "a">> :> ",")
    @@ (<<"a", "c", "c", "e", "n", "t">> :> "'")

LETTER_NAMES ==
    { <<"d", "o", "u", "b", "l", "e", " ", "u">>,
      <<"d", "o", "u", "b", "l", "e", " ", "y", "o", "u">>,
      <<"p", "e", "e">>, <<"b", "e", "e">>, <<"s", "e", "e">>,
      <<"d", "e", "e">>, <<"e", "e">>, <<"e", "f", "f">>,
      <<"g", "e", "e">>, <<"a", "i", "t", "c", "h">>, <<"e", "y", "e">>,
      <<"j", "a", "y">>, <<"k", "a", "y">>, <<"e", "l", "l">>,
      <<"e", "m">>, <<"e", "n">>, <<"o", "h">>,
      <<"q", "u", "e", "u", "e">>, <<"c", "u", "e">>, <<"a", "r">>,
      <<"e", "s", "s">>, <<"t", "e", "e">>, <<"y", "o", "u">>,
      <<"v", "e", "e">>, <<"e", "x">>, <<"w", "h", "y">>,
      <<"z", "e", "e">>, <<"z", "e", "d">> }

phoneticMap ==
       (<<"p", "e", "e">> :> "P") @@ (<<"b", "e", "e">> :> "B")
    @@ (<<"s", "e", "e">> :> "C") @@ (<<"d", "e", "e">> :> "D")
    @@ (<<"e", "e">> :> "E")
    @@ (<<"e", "f", "f">> :> "F") @@ (<<"e", "f">> :> "F")
    @@ (<<"g", "e", "e">> :> "G") @@ (<<"a", "i", "t", "c", "h">> :> "H")
    @@ (<<"e", "y", "e">> :> "I")
    @@ (<<"j", "a", "y">> :> "J") @@ (<<"k", "a", "y">> :> "K")
    @@ (<<"e", "l", "l">> :> "L") @@ (<<"e", "l">> :> "L")
    @@ (<<"e", "m">> :> "M")
    @@ (<<"e", "n">> :> "N") @@ (<<"o", "h">> :> "O")
    @@ (<<"q", "u", "e", "u", "e">> :> "Q") @@ (<<"c", "u", "e">> :> "Q")
    @@ (<<"a", "r">> :> "R")
    @@ (<<"e", "s", "s">> :> "S") @@ (<<"e", "s">> :> "S")
    @@ (<<"t", "e", "e">> :> "T") @@ (<<"y", "o", "u">> :> "U")
    @@ (<<"v", "e", "e">> :> "V")
    @@ (<<"e", "x">> :> "X") @@ (<<"w", "h", "y">> :> "Y")
    @@ (<<"z", "e", "e">> :> "Z") @@ (<<"z", "e", "d">> :> "Z")

\* SPECIAL_CHAR_MAP and phoneticMap are object literals, so map[key] also
\* finds what they inherit from Object.prototype.  Of the inherited names
\* only these two are their own lowercase, the form every key arrives in;
\* the values found are a function and an object, both truthy.
ObjectPrototype ==
       (<<"c", "o", "n", "s", "t", "r", "u", "c", "t", "o", "r">> :> "function Object")
    @@ (<<"_", "_", "p", "r", "o", "t", "o", "_", "_">> :> "[object Object]")

\* map[key]: Some(value), or Null for undefined
Lookup(map, key) ==
    IF key \in DOMAIN map THEN Some(map[key])
    ELSE IF key \in DOMAIN ObjectPrototype THEN Some(ObjectPrototype[key])
    ELSE Null

isLetterToken(token) ==
    LET cleaned == toLowerCase(trim(token))
    IN  IF Len(cleaned) = 1 /\ IsLowerAZ(cleaned[1]) THEN TRUE
        ELSE IF Lookup(SPECIAL_CHAR_MAP, cleaned) # Null THEN TRUE
        ELSE IF cleaned \in LETTER_NAMES THEN TRUE
        ELSE FALSE

\* extractSingleLetter, were a single letter returned as it was spoken
extractSingleLetterAsSpoken(token) ==
    LET cleaned == trim(toLowerCase(token))
    IN  IF Lookup(SPECIAL_CHAR_MAP, cleaned) # Null
        THEN Lookup(SPECIAL_CHAR_MAP, cleaned)
        ELSE IF Len(cleaned) = 1 /\ IsLowerAZ(cleaned[1])
        THEN Some(cleaned[1])
        ELSE IF Lookup(phoneticMap, cleaned) # Null
        THEN Lookup(phoneticMap, cleaned)
        ELSE Null

extractSingleLetter(token) ==
    LET cleaned == trim(toLowerCase(token))
    IN  IF Lookup(SPECIAL_CHAR_MAP, cleaned) # Null
        THEN Lookup(SPECIAL_CHAR_MAP, cleaned)
        ELSE IF Len(cleaned) = 1 /\ IsLowerAZ(cleaned[1])
        THEN Some(toUpperChar(cleaned[1]))
        ELSE IF Lookup(phoneticMap, cleaned) # Null
        THEN Lookup(phoneticMap, cleaned)
        ELSE Null

---------------------------------------------------------------------------
(* The similarity matcher.                                                 *)

\* the loop of lines 86-89: positions below minLen where the two agree
RECURSIVE countMatches(_, _, _, _)
countMatches(a, b, i, minLen) ==
    IF i > minLen THEN 0
    ELSE (IF a[i] = b[i] THEN 1 ELSE 0) + countMatches(a, b, i + 1, minLen)

Min(a, b) == IF a <= b THEN a ELSE b
Max(a, b) == IF a >= b THEN a ELSE b

\* AtLeast70Percent, were the threshold 0.8
AtLeast80Percent(matches, maxLen) == 10 * matches >= 8 * maxLen

\* matches / maxLen >= 0.7, in integers (the quotient is a double; it is
\* compared with the double nearest 7/10, which a quotient m/n of small
\* integers reaches only when 10 m = 7 n)
AtLeast70Percent(matches, maxLen) == 10 * matches >= 7 * maxLen

MinFuzzyLen == 3

\* wordsSoundSimilar, were only the spoken word tried as the longer one
wordsSoundSimilarOneWayPrefix(spokenArg, targetArg) ==
    LET spokenClean == trim(toLowerCase(spokenArg))
        targetClean == trim(toLowerCase(targetArg))
        spokenNorm  == stripNonAZ(spokenClean)
        targetNorm  == stripNonAZ(targetClean)
        minLen      == Min(Len(spokenNorm), Len(targetNorm))
        maxLen      == Max(Len(spokenNorm), Len(targetNorm))
        matches     == countMatches(spokenNorm, targetNorm, 1, minLen)
    IN  IF spokenClean = targetClean THEN TRUE
        ELSE IF spokenNorm = targetNorm THEN TRUE
        ELSE IF Len(spokenNorm) >= MinFuzzyLen /\ Len(targetNorm) >= MinFuzzyLen
             THEN IF startsWith(spokenNorm, targetNorm) THEN TRUE
                  ELSE AtLeast70Percent(matches, maxLen)
             ELSE FALSE

wordsSoundSimilar(spokenArg, targetArg) ==
    LET spokenClean == trim(toLowerCase(spokenArg))
        targetClean == trim(toLowerCase(targetArg))
        spokenNorm  == stripNonAZ(spokenClean)
        targetNorm  == stripNonAZ(targetClean)
        minLen      == Min(Len(spokenNorm), Len(targetNorm))
        maxLen      == Max(Len(spokenNorm), Len(targetNorm))
        matches     == countMatches(spokenNorm, targetNorm, 1, minLen)
    IN  IF spokenClean = targetClean THEN TRUE
        ELSE IF spokenNorm = targetNorm THEN TRUE
        ELSE IF Len(spokenNorm) >= MinFuzzyLen /\ Len(targetNorm) >= MinFuzzyLen
             THEN IF startsWith(spokenNorm, targetNorm)
                     \/ startsWith(targetNorm, spokenNorm) THEN TRUE
                  ELSE AtLeast70Percent(matches, maxLen)
             ELSE FALSE

---------------------------------------------------------------------------
(* The transcript parser.                                                  *)

\* fullText.toLowerCase().split(/\s+/).filter(t => t)
tokenize(text) == filterNonEmpty(split(toLowerCase(text)))

\* targetWordRef.current?.toLowerCase() || ''
targetOf(ref) == IF ref = Null THEN <<>> ELSE toLowerCase(ref[1])

\* the locals of processTranscript before its first loop (lines 201-206)
scanStart ==
    [phase |-> "word1", startWord |-> Null, skippedStart |-> FALSE,
     letterStartIndex |-> -1]

\* preambleStep, were the letter test made before the target test
preambleStepLetterFirst(st, token, i, tgt) ==
    IF st.phase = "word1"
    THEN IF isLetterToken(token)
         THEN [st EXCEPT !.skippedStart = TRUE, !.phase = "spelling",
                         !.letterStartIndex = i]
         ELSE IF tgt # <<>> /\ wordsSoundSimilar(token, tgt)
         THEN [st EXCEPT !.startWord = Some(token), !.phase = "spelling",
                         !.letterStartIndex = i + 1]
         ELSE st
    ELSE st

\* preambleStep, were the scan to go on after it has left word1
preambleStepNoPhaseGuard(st, token, i, tgt) ==
    IF tgt # <<>> /\ wordsSoundSimilar(token, tgt)
    THEN [st EXCEPT !.startWord = Some(token), !.phase = "spelling",
                    !.letterStartIndex = i + 1]
    ELSE IF isLetterToken(token)
    THEN [st EXCEPT !.skippedStart = TRUE, !.phase = "spelling",
                    !.letterStartIndex = i]
    ELSE st

\* preambleStep, were every token that is not the target taken as the
\* start of the spelling
preambleStepAnyTokenSkips(st, token, i, tgt) ==
    IF st.phase = "word1"
    THEN IF tgt # <<>> /\ wordsSoundSimilar(token, tgt)
         THEN [st EXCEPT !.startWord = Some(token), !.phase = "spelling",
                         !.letterStartIndex = i + 1]
         ELSE [st EXCEPT !.skippedStart = TRUE, !.phase = "spelling",
                         !.letterStartIndex = i]
    ELSE st

\* the body of the first loop (lines 210-224); i is the 0-based index
preambleStep(st, token, i, tgt) ==
    IF st.phase = "word1"
    THEN IF tgt # <<>> /\ wordsSoundSimilar(token, tgt)
         THEN [st EXCEPT !.startWord = Some(token), !.phase = "spelling",
                         !.letterStartIndex = i + 1]
         ELSE IF isLetterToken(token)
         THEN [st EXCEPT !.skippedStart = TRUE, !.phase = "spelling",
                         !.letterStartIndex = i]
         ELSE st
    ELSE st

\* for (let i = 0; i < tokens.length; i++)  (line 209)
RECURSIVE preambleScan(_, _, _, _)
preambleScan(tokens, tgt, i, st) ==
    IF i >= Len(tokens) THEN st
    ELSE preambleScan(tokens, tgt, i + 1, preambleStep(st, tokens[i + 1], i, tgt))

\* isEndWord, were the closing word accepted before any letter
isEndWordAnywhere(token, tgt, letterTokens) ==
    tgt # <<>> /\ wordsSoundSimilar(token, tgt)

\* the test of line 233: is this token the closing word?
isEndWord(token, tgt, letterTokens) ==
    tgt # <<>> /\ wordsSoundSimilar(token, tgt) /\ Len(letterTokens) > 0

\* letterStep, were a token decoded before it is tested as closing word
letterStepDecodeFirst(ls, token, tgt) ==
    LET letter == extractSingleLetter(token)
    IN  IF letter # Null
        THEN [ls EXCEPT !.letterTokens = Append(@, letter[1])]
        ELSE IF isEndWord(token, tgt, ls.letterTokens)
        THEN [ls EXCEPT !.endWord = Some(token), !.phase = "word2",
                        !.stopped = TRUE]
        ELSE ls

\* the body of the second loop (lines 230-243)
letterStep(ls, token, tgt) ==
    IF isEndWord(token, tgt, ls.letterTokens)
    THEN [ls EXCEPT !.endWord = Some(token), !.phase = "word2", !.stopped = TRUE]
    ELSE LET letter == extractSingleLetter(token)
         IN  IF letter # Null
             THEN [ls EXCEPT !.letterTokens = Append(@, letter[1])]
             ELSE ls

\* letterScan, were the loop not left at the closing word
RECURSIVE letterScanNoBreak(_, _, _, _)
letterScanNoBreak(tokens, tgt, i, ls) ==
    IF i >= Len(tokens) THEN ls
    ELSE letterScanNoBreak(tokens, tgt, i + 1, letterStep(ls, tokens[i + 1], tgt))

\* for (let i = letterStartIndex; i < tokens.length; i++), left by break
RECURSIVE letterScan(_, _, _, _)
letterScan(tokens, tgt, i, ls) ==
    IF i >= Len(tokens) \/ ls.stopped THEN ls
    ELSE letterScan(tokens, tgt, i + 1, letterStep(ls, tokens[i + 1], tgt))

\* storedPhase, were the start word left out of it
storedPhaseNoStartWord(endWord, chars, startWord) ==
    IF endWord # Null THEN "word2"
    ELSE IF Len(chars) > 0 THEN "spelling"
    ELSE "word1"

\* the phase stored by setSpellingState (line 253)
storedPhase(endWord, chars, startWord) ==
    IF endWord # Null THEN "word2"
    ELSE IF Len(chars) > 0 THEN "spelling"
    ELSE IF startWord # Null THEN "spelling"
    ELSE "word1"

\* autoStopDue, were it to test only that spelling has begun
autoStopDueOnceSpelling(endWord, ref, phase) ==
    ref # Null /\ phase # "word1"

\* the condition of the auto-stop (line 261)
autoStopDue(endWord, ref, phase) ==
    endWord # Null /\ ref # Null /\ phase = "word2"

\* processTranscript(fullText), reading targetWordRef and recognitionRef:
\* what it stores with setCharacters and setSpellingState, and whether it
\* sets the auto-stop timeout
processTranscript(text, tgtRef, recRef) ==
    LET tokens == tokenize(text)
        tgt    == targetOf(tgtRef)
        pre    == preambleScan(tokens, tgt, 0, scanStart)
        ls0    == [letterTokens |-> <<>>, endWord |-> Null,
                   phase |-> pre.phase, stopped |-> FALSE]
        ls     == IF pre.letterStartIndex >= 0
                  THEN letterScan(tokens, tgt, pre.letterStartIndex, ls0)
                  ELSE ls0
        chars  == ls.letterTokens
    IN  [characters |-> chars,
         spellingState |->
            [phase            |-> storedPhase(ls.endWord, chars, pre.startWord),
             startWord        |-> pre.startWord,
             characters       |-> chars,
             endWord          |-> ls.endWord,
             skippedStartWord |-> pre.skippedStart],
         autoStop |-> autoStopDue(ls.endWord, recRef, ls.phase)]

---------------------------------------------------------------------------
(* Bounds and input sets.                                                  *)

MaxStrLen  == 4    \* longest string given to the similarity matcher
MaxTokens  == 3    \* most tokens of a transcript built from Vocabulary
MaxWordLen == 4    \* longest target word that is spelled out in full
MaxResults == 2    \* most results the recognizer holds in one session
MaxTimers == 2    \* most auto-stop timeouts pending at once

\* the sequences over S of a length from lo to hi
SeqsOver(S, lo, hi) == UNION {[1..n -> S] : n \in lo..hi}

\* tokens.join(' ')
RECURSIVE join(_)
join(ts) ==
    IF ts = <<>> THEN <<>>
    ELSE IF Len(ts) = 1 THEN ts[1]
    ELSE ts[1] \o <<" ">> \o join(Tail(ts))

\* a string, one token per character: "cat" spelled as "c a t"
letters(w) == join([i \in 1..Len(w) |-> <<w[i]>>])

w_apple == <<"a", "p", "p", "l", "e">>
w_aple  == <<"a", "p", "l", "e">>
w_cat   == <<"c", "a", "t">>
w_cats  == <<"c", "a", "t", "s">>
w_ca    == <<"c", "a">>
w_dog   == <<"d", "o", "g">>
w_you   == <<"y", "o", "u">>
w_cow   == <<"c", "o", "w">>
w_bee   == <<"b", "e", "e">>
w_ef    == <<"e", "f">>
w_catch == <<"c", "a", "t", "c", "h">>
w_hello == <<"h", "e", "l", "l", "o">>
w_world == <<"w", "o", "r", "l", "d">>
w_space == <<"s", "p", "a", "c", "e">>
w_constructor == <<"c", "o", "n", "s", "t", "r", "u", "c", "t", "o", "r">>
w_double_u    == <<"d", "o", "u", "b", "l", "e", " ", "u">>
w_double_you  == <<"d", "o", "u", "b", "l", "e", " ", "y", "o", "u">>

\* ---- inputs of the similarity matcher
SimAlphabet == {"a", "B", "-"}
SimStrings  == SeqsOver(SimAlphabet, 0, MaxStrLen)
SimNamed ==
    { <<w_aple, w_apple>>, <<w_ca, w_cat>>, <<w_cat, w_dog>>,
      <<w_cats, w_cat>>, <<<<" ", "C", "a", "t", " ">>, w_cat>>,
      <<<<"a", " ", "b">>, <<"a", "b">>>>, <<w_cat, w_catch>> }
SimInputs == (SimStrings \X SimStrings) \cup SimNamed

\* ---- inputs of the parser: <<transcript text, target word>>
Vocabulary ==
    { w_cat, w_cats, <<"c">>, <<"a">>, <<"t">>, w_you, w_bee, w_ef,
      w_hello, w_space, w_constructor }
VocabularyTargets == { Null, Some(w_cat), Some(w_you) }
VocabularyTexts == {join(ts) : ts \in SeqsOver(Vocabulary, 0, MaxTokens)}

\* every word over a small alphabet, said, spelled letter by letter, said
WordAlphabet == {"a", "p", "e"}
Words == SeqsOver(WordAlphabet, 1, MaxWordLen) \cup {w_apple}
bee(w) == w \o <<" ">> \o letters(w) \o <<" ">> \o w
BeeInputs == {<<bee(w), Some(w)>> : w \in Words}

NamedInputs ==
    { <<letters(w_apple), Some(w_apple)>>,
      <<w_hello \o <<" ">> \o w_world, Some(w_apple)>>,
      <<<<" ", "A", "p", "p", "l", "e", " ", " ">> \o toUpperCase(letters(w_apple))
          \o <<" ", " ">> \o w_apple \o <<" ">>, Some(toUpperCase(w_apple))>>,
      <<w_cow \o <<" ", "c", " ", "o", " ">> \o w_double_u, Some(w_cow)>>,
      <<w_cow \o <<" ", "c", " ", "o", " ">> \o w_double_you, Some(w_cow)>>,
      <<w_cow \o <<" ", "c", " ", "o", " ", "w", " ">> \o w_cow, Some(w_cow)>> }

ParserInputs == (VocabularyTexts \X VocabularyTargets) \cup BeeInputs \cup NamedInputs

\* ---- inputs of the session
Phrases ==
    { w_cat, <<" ", "C", " ", "a">>, <<"t", " ", " ">> \o w_cat }
Targets == { Null, Some(w_cat), Some(<<"C", "a", "t", "s">>) }
ErrorKinds == { "no-speech", "aborted", "network" }

---------------------------------------------------------------------------
(* The hook.                                                               *)

\* the spelling state without an attempt, in the given phase
freshState(phase) ==
    [phase |-> phase, startWord |-> Null, characters |-> <<>>,
     endWord |-> Null, skippedStartWord |-> FALSE]

\* useSpeechRecognition(w) after its effects have run on mount, on a platform
\* that has (api) or has not the SpeechRecognition constructor
HookInit(w, api) ==
    /\ isListening = FALSE
    /\ transcript = <<>>
    /\ fullTranscript = <<>>
    /\ characters = <<>>
    /\ error = IF api THEN Null
               ELSE Some("Speech recognition is not supported in this browser")
    /\ isSupported = api
    /\ spellingState = freshState("waiting")
    /\ targetWord = w
    /\ targetWordRef = w
    /\ recognitionRef = IF api THEN Some("recognition") ELSE Null

EnvInit ==
    /\ recognizer = "inactive"
    /\ results = <<>>
    /\ timers = 0
    /\ request = "none"
    /\ lastEvent = "mount"

TraceInit ==
    /\ staleTimers = 0
    /\ sessionTarget = targetWordRef
    /\ errorEvent = "none"

\* SpellingQuiz on mount
QuizInit ==
    /\ currentIndex = 0
    /\ score = 0
    /\ showResult = FALSE
    /\ isCorrect = FALSE
    /\ hasChecked = FALSE
    /\ showFormatReminder = FALSE
    /\ submitTimers = <<>>

\* useDictionary('') on mount: fetchData returns at once
DictIdle ==
    /\ word = <<>>
    /\ wordData = Null
    /\ isLoading = FALSE
    /\ pending = <<>>
    /\ cache = {}

SimIdle    == spoken = <<>> /\ target = <<>> /\ similar = Null
ParserIdle == fullText = <<>> /\ parsed = FALSE

\* setCharacters, setSpellingState and the auto-stop setTimeout of
\* processTranscript(text)
storeParse(text) ==
    LET out == processTranscript(text, targetWordRef, recognitionRef)
    IN  /\ characters' = out.characters
        /\ spellingState' = out.spellingState
        /\ timers' = IF out.autoStop THEN timers + 1 ELSE timers

---------------------------------------------------------------------------
(* The platform recognizer, as the hook drives it.                         *)

\* recognition.start(): an inactive recognizer starts a session with an empty
\* result list; any other throws InvalidStateError, which the caller catches
recognitionStart ==
    /\ request' = "start"
    /\ IF recognizer = "inactive"
       THEN recognizer' = "starting" /\ results' = <<>>
       ELSE UNCHANGED <<recognizer, results>>

\* recognition.stop(): a started recognizer finalizes and will end
recognitionStop ==
    /\ request' = "stop"
    /\ recognizer' = IF recognizer \in {"starting", "running"}
                     THEN "stopping" ELSE recognizer
    /\ UNCHANGED results

---------------------------------------------------------------------------
(* The handlers and the functions the hook returns.                        *)

\* useEffect(() => { targetWordRef.current = targetWord }, [targetWord])
SetTargetWord(w) ==
    /\ w # targetWord
    /\ targetWord' = w
    /\ targetWordRef' = w
    /\ lastEvent' = "targetWord"
    /\ request' = "none"
    /\ UNCHANGED <<isListening, transcript, fullTranscript, characters, error,
                   isSupported, spellingState, recognitionRef,
                   recognizer, results, timers>>

\* startListening, were it not to test that there is a recognizer
startListeningUnguarded ==
    /\ lastEvent' = "startListening"
    /\ IF ~isListening
       THEN /\ transcript' = <<>>
            /\ fullTranscript' = <<>>
            /\ characters' = <<>>
            /\ error' = Null
            /\ spellingState' = freshState("word1")
            /\ recognitionStart
       ELSE /\ request' = "none"
            /\ UNCHANGED <<transcript, fullTranscript, characters, error,
                           spellingState, recognizer, results>>
    /\ UNCHANGED <<isListening, isSupported, targetWord, targetWordRef,
                   recognitionRef, timers>>

\* startListening, were it to leave the error of the last session in place
startListeningKeepsError ==
    /\ lastEvent' = "startListening"
    /\ IF recognitionRef # Null /\ ~isListening
       THEN /\ transcript' = <<>>
            /\ fullTranscript' = <<>>
            /\ characters' = <<>>
            /\ spellingState' = freshState("word1")
            /\ recognitionStart
       ELSE /\ request' = "none"
            /\ UNCHANGED <<transcript, fullTranscript, characters,
                           spellingState, recognizer, results>>
    /\ UNCHANGED <<isListening, error, isSupported, targetWord, targetWordRef,
                   recognitionRef, timers>>

startListening ==
    /\ lastEvent' = "startListening"
    /\ IF recognitionRef # Null /\ ~isListening
       THEN /\ transcript' = <<>>
            /\ fullTranscript' = <<>>
            /\ characters' = <<>>
            /\ error' = Null
            /\ spellingState' = freshState("word1")
            /\ recognitionStart
       ELSE /\ request' = "none"
            /\ UNCHANGED <<transcript, fullTranscript, characters, error,
                           spellingState, recognizer, results>>
    /\ UNCHANGED <<isListening, isSupported, targetWord, targetWordRef,
                   recognitionRef, timers>>

\* stopListening, were it to clear the listening flag itself
stopListeningSync ==
    /\ lastEvent' = "stopListening"
    /\ IF recognitionRef # Null /\ isListening
       THEN recognitionStop /\ isListening' = FALSE
       ELSE request' = "none" /\ UNCHANGED <<recognizer, results, isListening>>
    /\ UNCHANGED <<transcript, fullTranscript, characters, error, isSupported,
                   spellingState, targetWord, targetWordRef, recognitionRef,
                   timers>>

stopListening ==
    /\ lastEvent' = "stopListening"
    /\ IF recognitionRef # Null /\ isListening
       THEN recognitionStop
       ELSE request' = "none" /\ UNCHANGED <<recognizer, results>>
    /\ UNCHANGED <<hookVars, timers>>

resetTranscript ==
    /\ lastEvent' = "resetTranscript"
    /\ transcript' = <<>>
    /\ fullTranscript' = <<>>
    /\ characters' = <<>>
    /\ spellingState' = freshState("waiting")
    /\ request' = "none"
    /\ UNCHANGED <<isListening, error, isSupported, targetWord, targetWordRef,
                   recognitionRef, recognizer, results, timers>>

\* recognition.onstart
onstart ==
    /\ recognizer = "starting"
    /\ recognizer' = "running"
    /\ lastEvent' = "onstart"
    /\ isListening' = TRUE
    /\ error' = Null
    /\ spellingState' = freshState("word1")
    /\ request' = "none"
    /\ UNCHANGED <<transcript, fullTranscript, characters, isSupported,
                   targetWord, targetWordRef, recognitionRef, results, timers>>

\* the loop of lines 160-162: every result's transcript, each followed by ' '
RECURSIVE currentFullTranscript(_)
currentFullTranscript(rs) ==
    IF rs = <<>> THEN <<>>
    ELSE rs[1] \o <<" ">> \o currentFullTranscript(Tail(rs))

\* parserInput, were the handler to parse only the latest result
parserInputLatest(rs) == rs[Len(rs)]

\* the text handed to processTranscript (line 172)
parserInput(rs) == currentFullTranscript(rs)

\* recognition.onresult, for an event whose results are rs
onresultHandler(rs) ==
    /\ fullTranscript' = trim(currentFullTranscript(rs))
    /\ transcript' = trim(rs[Len(rs)])
    /\ storeParse(parserInput(rs))

\* the recognizer adds a result to its list, or revises the last (interim)
\* one, and delivers the list
onresult(p) ==
    /\ recognizer \in {"running", "stopping"}
    /\ \/ Len(results) < MaxResults /\ results' = Append(results, p)
       \/ Len(results) > 0 /\ results' = [results EXCEPT ![Len(results)] = p]
    /\ lastEvent' = "onresult"
    /\ onresultHandler(results')
    /\ timers' <= MaxTimers
    /\ request' = "none"
    /\ UNCHANGED <<isListening, error, isSupported, targetWord, targetWordRef,
                   recognitionRef, recognizer>>

\* onerror, were it to report every kind of error
onerrorSurfacesAll(kind) ==
    /\ recognizer \in {"starting", "running", "stopping"}
    /\ recognizer' = "ending"
    /\ lastEvent' = "onerror"
    /\ error' = Some(<<"Error: ", kind>>)
    /\ isListening' = FALSE
    /\ request' = "none"
    /\ UNCHANGED <<transcript, fullTranscript, characters, isSupported,
                   spellingState, targetWord, targetWordRef, recognitionRef,
                   results, timers>>

\* recognition.onerror; the recognizer then ends the session
onerror(kind) ==
    /\ recognizer \in {"starting", "running", "stopping"}
    /\ recognizer' = "ending"
    /\ lastEvent' = "onerror"
    /\ error' = IF kind # "aborted" /\ kind # "no-speech"
                THEN Some(<<"Error: ", kind>>) ELSE error
    /\ isListening' = FALSE
    /\ request' = "none"
    /\ UNCHANGED <<transcript, fullTranscript, characters, isSupported,
                   spellingState, targetWord, targetWordRef, recognitionRef,
                   results, timers>>

\* onend, were it to discard the attempt with the session
onendDiscarding ==
    /\ recognizer \in {"running", "stopping", "ending"}
    /\ recognizer' = "inactive"
    /\ lastEvent' = "onend"
    /\ isListening' = FALSE
    /\ transcript' = <<>>
    /\ fullTranscript' = <<>>
    /\ characters' = <<>>
    /\ spellingState' = freshState("waiting")
    /\ request' = "none"
    /\ UNCHANGED <<error, isSupported, targetWord, targetWordRef,
                   recognitionRef, results, timers>>

\* onend, were it to mark the attempt complete
onendCompletes ==
    /\ recognizer \in {"running", "stopping", "ending"}
    /\ recognizer' = "inactive"
    /\ lastEvent' = "onend"
    /\ isListening' = FALSE
    /\ spellingState' = [spellingState EXCEPT !.phase = "complete"]
    /\ request' = "none"
    /\ UNCHANGED <<transcript, fullTranscript, characters, error, isSupported,
                   targetWord, targetWordRef, recognitionRef, results, timers>>

\* recognition.onend
onend ==
    /\ recognizer \in {"running", "stopping", "ending"}
    /\ recognizer' = "inactive"
    /\ lastEvent' = "onend"
    /\ isListening' = FALSE
    /\ request' = "none"
    /\ UNCHANGED <<transcript, fullTranscript, characters, error, isSupported,
                   spellingState, targetWord, targetWordRef, recognitionRef,
                   results, timers>>

\* autoStopTimeout, were the callback to leave the recognizer alone
autoStopTimeoutIdle ==
    /\ timers > 0
    /\ timers' = timers - 1
    /\ lastEvent' = "timeout"
    /\ request' = "none"
    /\ UNCHANGED <<recognizer, results, hookVars>>

\* the callback of the auto-stop setTimeout (lines 262-266)
autoStopTimeout ==
    /\ timers > 0
    /\ timers' = timers - 1
    /\ lastEvent' = "timeout"
    /\ IF recognitionRef # Null
       THEN recognitionStop
       ELSE request' = "none" /\ UNCHANGED <<recognizer, results>>
    /\ UNCHANGED hookVars

---------------------------------------------------------------------------
(* Specifications.                                                         *)

\* the hook in a consumer, on a platform with or without speech recognition
Init ==
    /\ \E w \in Targets, api \in BOOLEAN : HookInit(w, api)
    /\ EnvInit
    /\ TraceInit
    /\ QuizInit
    /\ DictIdle
    /\ SimIdle
    /\ ParserIdle

\* what the observer records of a step: the timeouts that are stale after
\* it, the session's target word and the error event it delivered
note(stale, tgt, err) ==
    /\ staleTimers' = stale
    /\ sessionTarget' = tgt
    /\ errorEvent' = err

\* a step of the hook on its own
observe(stale, tgt, err) ==
    /\ note(stale, tgt, err)
    /\ UNCHANGED <<quizVars, dictVars, simVars, parserVars>>

\* timeouts run in the order they were set: the stale ones first
staleAfterTimeout == IF staleTimers > 0 THEN staleTimers - 1 ELSE 0

Next ==
    \/ (\E w \in Targets : SetTargetWord(w))
          /\ observe(staleTimers, sessionTarget, "none")
    \/ startListening
          /\ observe(staleTimers,
                     IF request' = "start" /\ recognizer = "inactive"
                     THEN targetWordRef ELSE sessionTarget,
                     "none")
    \/ stopListening /\ observe(staleTimers, sessionTarget, "none")
    \/ resetTranscript /\ observe(staleTimers, sessionTarget, "none")
    \/ onstart /\ observe(staleTimers, sessionTarget, "none")
    \/ (\E p \in Phrases : onresult(p))
          /\ observe(staleTimers, sessionTarget, "none")
    \/ (\E k \in ErrorKinds : onerror(k) /\ observe(timers, sessionTarget, k))
    \/ onend /\ observe(timers, sessionTarget, "none")
    \/ autoStopTimeout /\ observe(staleAfterTimeout, sessionTarget, "none")

Spec == Init /\ [][Next]_vars

\* a timeout that was set runs
timerFires ==
    autoStopTimeout /\ observe(staleAfterTimeout, sessionTarget, "none")

\* a recognizer that was told to stop, or has reported an error, ends
recognizerEnds ==
    /\ recognizer \in {"stopping", "ending"}
    /\ onend
    /\ observe(timers, sessionTarget, "none")

\* the session with a timer queue that runs what was set and a recognizer
\* that answers stop() and an error with its end event
SpecLive == Spec /\ WF_vars(timerFires) /\ WF_vars(recognizerEnds)

\* wordsSoundSimilar called on a pair of strings
SimInit ==
    /\ \E in \in SimInputs : spoken = in[1] /\ target = in[2]
    /\ similar = Null
    /\ HookInit(Null, TRUE)
    /\ EnvInit
    /\ TraceInit
    /\ QuizInit
    /\ DictIdle
    /\ ParserIdle

SimCall ==
    /\ similar = Null
    /\ similar' = Some(wordsSoundSimilar(spoken, target))
    /\ UNCHANGED <<spoken, target, hookVars, envVars, traceVars, quizVars,
                   dictVars, parserVars>>

SimNext == SimCall

SpecSim == SimInit /\ [][SimNext]_vars

\* processTranscript called on a transcript text, for a target word
ParserInit ==
    /\ \E in \in ParserInputs : fullText = in[1] /\ HookInit(in[2], TRUE)
    /\ parsed = FALSE
    /\ EnvInit
    /\ TraceInit
    /\ QuizInit
    /\ DictIdle
    /\ SimIdle

ParserCall ==
    /\ ~parsed
    /\ parsed' = TRUE
    /\ storeParse(fullText)
    /\ lastEvent' = "processTranscript"
    /\ UNCHANGED <<isListening, transcript, fullTranscript, error, isSupported,
                   targetWord, targetWordRef, recognitionRef,
                   recognizer, results, request, fullText, traceVars, quizVars,
                   dictVars, simVars>>

ParserNext == ParserCall

SpecParser == ParserInit /\ [][ParserNext]_vars

---------------------------------------------------------------------------
(* The quiz component SpellingQuiz, which consumes the hook.               *)

MaxSubmits == 2    \* most handleSubmit timeouts pending at once
MaxScore   == 2    \* the score is followed up to this value

\* the props `words`: SpellingWord[]
QuizWords ==
    << [word |-> <<"C", "a", "t">>, alternateSpelling |-> Some(w_cats)] >>

\* what the learner may say in a result
QuizPhrases == { <<" ", "C", " ", "a">>, <<"t", " ", " ">> \o w_cat }

\* const currentWord = words[currentIndex]
currentWord == QuizWords[currentIndex + 1]

\* characters.join('')
RECURSIVE joinEmpty(_)
joinEmpty(cs) ==
    IF cs = <<>> THEN <<>> ELSE <<Head(cs)>> \o joinEmpty(Tail(cs))

\* checkSpelling(entered, word) of data/words.ts
checkSpelling(entered, w) ==
    LET enteredLower   == toLowerCase(entered)
        primaryMatch   == enteredLower = toLowerCase(w.word)
        alternateMatch == IF w.alternateSpelling # Null
                          THEN enteredLower = toLowerCase(w.alternateSpelling[1])
                          ELSE FALSE
    IN  primaryMatch \/ alternateMatch

\* what a checkAnswer closure has captured: its dependencies
closure ==
    [characters |-> characters, currentWord |-> currentWord,
     skippedStartWord |-> spellingState.skippedStartWord]

\* checkAnswer, as the closure c runs it
checkAnswer(c) ==
    LET correct == checkSpelling(joinEmpty(c.characters), c.currentWord)
    IN  /\ isCorrect' = correct
        /\ showResult' = TRUE
        /\ hasChecked' = TRUE
        /\ showFormatReminder' = (c.skippedStartWord \/ showFormatReminder)
        /\ score' = IF correct THEN score + 1 ELSE score
        /\ score' <= MaxScore

\* a step of the quiz leaves these alone (the session is not observed here)
quizStep == UNCHANGED <<traceVars, dictVars, simVars, parserVars>>

\* a step of the hook below the quiz
hookStep == UNCHANGED <<traceVars, quizVars, dictVars, simVars, parserVars>>

\* RecordButton's handleClick; the button is rendered while !showResult
recordClick ==
    /\ ~showResult
    /\ IF isListening THEN stopListening ELSE startListening
    /\ hookStep

\* the condition under which the Restart and Done / Submit buttons are
\* rendered
actionButtonsShown ==
    ~showResult /\ (isListening \/ Len(characters) > 0) /\ ~hasChecked

handleSubmit ==
    /\ actionButtonsShown
    /\ Len(submitTimers) < MaxSubmits
    /\ stopListening
    /\ submitTimers' = Append(submitTimers, closure)
    /\ UNCHANGED <<currentIndex, score, showResult, isCorrect, hasChecked,
                   showFormatReminder>>
    /\ quizStep

\* the callback of handleSubmit's setTimeout(..., 200)
submitTimeout ==
    /\ submitTimers # <<>>
    /\ submitTimers' = Tail(submitTimers)
    /\ checkAnswer(Head(submitTimers))
    /\ lastEvent' = "submitTimeout"
    /\ request' = "none"
    /\ UNCHANGED <<hookVars, recognizer, results, timers, currentIndex>>
    /\ quizStep

\* the condition of the auto-check effect; the effect's cleanup clears the
\* timeout whenever one of these values changes, so a timeout is pending
\* exactly while the condition holds
autoCheckDue ==
    /\ spellingState.phase = "word2"
    /\ spellingState.endWord # Null
    /\ ~isListening
    /\ ~hasChecked

\* the callback of the effect's setTimeout(..., 300)
autoCheckTimeout ==
    /\ autoCheckDue
    /\ checkAnswer(closure)
    /\ lastEvent' = "autoCheckTimeout"
    /\ request' = "none"
    /\ UNCHANGED <<hookVars, recognizer, results, timers, currentIndex,
                   submitTimers>>
    /\ quizStep

\* ResultDisplay's onNextWord; the hook is rendered with the next word
handleNextWord ==
    /\ showResult
    /\ lastEvent' = "handleNextWord"
    /\ request' = "none"
    /\ IF currentIndex < Len(QuizWords) - 1
       THEN /\ currentIndex' = currentIndex + 1
            /\ showResult' = FALSE
            /\ hasChecked' = FALSE
            /\ showFormatReminder' = FALSE
            /\ transcript' = <<>>
            /\ fullTranscript' = <<>>
            /\ characters' = <<>>
            /\ spellingState' = freshState("waiting")
            /\ targetWord' = Some(QuizWords[currentIndex + 2].word)
            /\ targetWordRef' = Some(QuizWords[currentIndex + 2].word)
       ELSE UNCHANGED <<currentIndex, showResult, hasChecked,
                        showFormatReminder, transcript, fullTranscript,
                        characters, spellingState, targetWord, targetWordRef>>
    /\ UNCHANGED <<score, isCorrect, submitTimers, isListening, error,
                   isSupported, recognitionRef, recognizer, results, timers>>
    /\ quizStep

\* ResultDisplay's onTryAgain
handleTryAgain ==
    /\ showResult
    /\ showResult' = FALSE
    /\ hasChecked' = FALSE
    /\ showFormatReminder' = FALSE
    /\ resetTranscript
    /\ UNCHANGED <<currentIndex, score, isCorrect, submitTimers>>
    /\ quizStep

\* the Restart button and WordControls' onReset
handleReset ==
    /\ ~showResult
    /\ resetTranscript
    /\ showResult' = FALSE
    /\ hasChecked' = FALSE
    /\ showFormatReminder' = FALSE
    /\ UNCHANGED <<currentIndex, score, isCorrect, submitTimers>>
    /\ quizStep

\* the quiz on its first word, on a platform with speech recognition
QuizSpecInit ==
    /\ HookInit(Some(QuizWords[1].word), TRUE)
    /\ EnvInit
    /\ TraceInit
    /\ QuizInit
    /\ DictIdle
    /\ SimIdle
    /\ ParserIdle

QuizNext ==
    \/ recordClick
    \/ handleSubmit
    \/ submitTimeout
    \/ autoCheckTimeout
    \/ handleNextWord
    \/ handleTryAgain
    \/ handleReset
    \/ onstart /\ hookStep
    \/ (\E p \in QuizPhrases : onresult(p)) /\ hookStep
    \/ onend /\ hookStep
    \/ autoStopTimeout /\ hookStep

\* the quiz over a recognizer that reports no error
SpecQuiz == QuizSpecInit /\ [][QuizNext]_vars

---------------------------------------------------------------------------
(* The hook useDictionary over the dictionary service.                     *)

MaxFetches == 2    \* most fetchWordData calls in flight at once

\* the words the consumer may pass
DictWords == { <<>>, <<"B", "e", "e">>, w_cow, w_dog }

\* how a request to the dictionary API ends: an entry, a response that is
\* not ok, or a failed request
Outcomes == { "found", "notFound", "networkError" }

\* the CachedWordData that fetchWordData(w) makes of an outcome; the
\* API's entry is filed under the key that was asked for
entryOf(w, outcome) ==
    [word |-> toLowerCase(w), notFound |-> outcome # "found"]

\* getCachedWord(w): the valid cache entry of w, or null
getCachedWord(w) ==
    LET hits == {e \in cache : e.word = toLowerCase(w)}
    IN  IF hits = {} THEN Null ELSE Some(CHOOSE e \in hits : TRUE)

\* fetchData of a render in which the word is w, up to its await; the
\* awaited fetchWordData catches every failure, so error stays null
fetchData(w) ==
    IF w = <<>>
    THEN wordData' = Null /\ UNCHANGED <<isLoading, pending>>
    ELSE IF getCachedWord(w) # Null
    THEN wordData' = getCachedWord(w) /\ UNCHANGED <<isLoading, pending>>
    ELSE /\ Len(pending) < MaxFetches
         /\ isLoading' = TRUE
         /\ pending' = Append(pending, w)
         /\ UNCHANGED wordData

\* a step of the dictionary hook leaves the rest alone
dictStep ==
    UNCHANGED <<hookVars, envVars, traceVars, quizVars, simVars, parserVars>>

\* the consumer renders the hook with another word: the effect runs the
\* new fetchData
setWord(w) ==
    /\ w # word
    /\ word' = w
    /\ fetchData(w)
    /\ UNCHANGED cache
    /\ dictStep

\* the function returned as refetch
refetch ==
    /\ fetchData(word)
    /\ UNCHANGED <<word, cache>>
    /\ dictStep

\* the i-th call in flight settles: fetchWordData files what it got (a
\* failed request is not filed) and fetchData goes on after its await
fetchSettles(i, outcome) ==
    /\ i \in 1..Len(pending)
    /\ LET data == entryOf(pending[i], outcome)
       IN  /\ cache' = IF outcome = "networkError" THEN cache
                       ELSE {e \in cache : e.word # data.word} \cup {data}
           /\ wordData' = Some(data)
    /\ isLoading' = FALSE
    /\ pending' = SubSeq(pending, 1, i - 1) \o SubSeq(pending, i + 1, Len(pending))
    /\ UNCHANGED word
    /\ dictStep

\* a cache entry is older than CACHE_EXPIRY_MS, or the cache is cleared
cacheExpires(e) ==
    /\ e \in cache
    /\ cache' = cache \ {e}
    /\ UNCHANGED <<word, wordData, isLoading, pending>>
    /\ dictStep

DictInit ==
    /\ HookInit(Null, TRUE)
    /\ EnvInit
    /\ TraceInit
    /\ QuizInit
    /\ DictIdle
    /\ SimIdle
    /\ ParserIdle

DictNext ==
    \/ \E w \in DictWords : setWord(w)
    \/ refetch
    \/ \E i \in 1..MaxFetches, o \in Outcomes : fetchSettles(i, o)
    \/ \E e \in cache : cacheExpires(e)

SpecDict == DictInit /\ [][DictNext]_vars

---------------------------------------------------------------------------
(* The claims.                                                             *)

\* the tokens of the transcript that was parsed, and its target
parsedTokens == tokenize(fullText)
parsedTarget == targetOf(targetWordRef)
matchesTarget(token) ==
    parsedTarget # <<>> /\ wordsSoundSimilar(token, parsedTarget)

\* C1: after a transcript update, the stored spelling state and characters
\* are the parse of that update's full transcript for the target word of
\* that moment, whatever the earlier updates of the session stored.
C1_StoredStateIsParseOfLastUpdate ==
    lastEvent = "onresult" =>
        LET out == processTranscript(fullTranscript, targetWordRef, recognitionRef)
        IN  /\ spellingState = out.spellingState
            /\ characters = out.characters

\* a second update of a session, revising what the first one stored
C1_Witness ==
    /\ lastEvent = "onresult"
    /\ Len(results) = 2
    /\ spellingState.phase = "word2"
    /\ spellingState.skippedStartWord

\* C2: for a target word W of letters a-z, the transcript "W l1 ... ln W"
\* parses to startWord W, the uppercase letters of W, endWord W, phase
\* word2 and skippedStartWord false.
C2_SaidSpelledSaid ==
    \A w \in Words :
        (parsed /\ targetWordRef = Some(w) /\ fullText = bee(w)) =>
            spellingState =
                [phase |-> "word2", startWord |-> Some(w),
                 characters |-> toUpperCase(w), endWord |-> Some(w),
                 skippedStartWord |-> FALSE]

\* target "apple", transcript "apple a p p l e apple"
C2_Witness ==
    /\ parsed
    /\ targetWordRef = Some(w_apple)
    /\ fullText = bee(w_apple)
    /\ spellingState.characters = <<"A", "P", "P", "L", "E">>
    /\ spellingState.endWord = Some(w_apple)

\* C3: skippedStartWord is true exactly when a token the preamble takes for
\* a letter or special character comes with no token matching the target at
\* or before it; startWord is then null and the first element of characters
\* is the character decoded from that token.
C3_SkippedIffLetterBeforeTarget ==
    parsed =>
        LET ts == parsedTokens
            early == {i \in 1..Len(ts) :
                        /\ isLetterToken(ts[i])
                        /\ \A j \in 1..i : ~matchesTarget(ts[j])}
        IN  /\ spellingState.skippedStartWord <=> (early # {})
            /\ early # {} =>
                 LET first == CHOOSE i \in early : \A j \in early : i <= j
                 IN  /\ spellingState.startWord = Null
                     /\ spellingState.characters # <<>>
                     /\ Some(spellingState.characters[1]) = extractSingleLetter(ts[first])

\* target "apple", transcript "a p p l e"
C3_Witness ==
    /\ parsed
    /\ targetWordRef = Some(w_apple)
    /\ fullText = letters(w_apple)
    /\ spellingState.skippedStartWord
    /\ spellingState.startWord = Null
    /\ spellingState.characters = <<"A", "P", "P", "L", "E">>

\* C4: endWord is set only if characters is not empty, and the token taken
\* as endWord follows a token that was decoded as a character: a token
\* matching the target met before any character is never the endWord.
C4_EndWordOnlyAfterCharacter ==
    (parsed /\ spellingState.endWord # Null) =>
        /\ Len(spellingState.characters) >= 1
        /\ \E k \in 1..Len(parsedTokens) :
              /\ parsedTokens[k] = spellingState.endWord[1]
              /\ matchesTarget(parsedTokens[k])
              /\ \E j \in 1..(k - 1) : extractSingleLetter(parsedTokens[j]) # Null

\* target "cat", transcript "cat cat": the second "cat" is no end word
C4_Witness ==
    /\ parsed
    /\ targetWordRef = Some(w_cat)
    /\ fullText = join(<<w_cat, w_cat>>)
    /\ spellingState.startWord = Some(w_cat)
    /\ spellingState.endWord = Null

\* C5: startWord set and skippedStartWord never hold together, and when the
\* phase is word2 exactly one of them holds.
C5_StartWordXorSkipped ==
    parsed =>
        /\ ~(spellingState.startWord # Null /\ spellingState.skippedStartWord)
        /\ spellingState.phase = "word2" =>
             ((spellingState.startWord # Null) # spellingState.skippedStartWord)

\* a completed parse that began with a letter and no opening word
C5_Witness ==
    /\ parsed
    /\ spellingState.phase = "word2"
    /\ spellingState.skippedStartWord
    /\ spellingState.startWord = Null

\* C6: the stored phase is word2 iff an end word was found, else spelling
\* iff a character or a start word was found, else word1; word1 comes with
\* no start word, no end word, no characters and skippedStartWord false;
\* the parser stores neither waiting nor complete.
C6_StoredPhase ==
    parsed =>
        /\ spellingState.phase =
             IF spellingState.endWord # Null THEN "word2"
             ELSE IF spellingState.characters # <<>>
                     \/ spellingState.startWord # Null THEN "spelling"
             ELSE "word1"
        /\ spellingState.phase = "word1" =>
             /\ spellingState.startWord = Null
             /\ spellingState.endWord = Null
             /\ spellingState.characters = <<>>
             /\ ~spellingState.skippedStartWord
        /\ spellingState.phase \notin {"waiting", "complete"}

\* a start word and nothing spelled yet: phase spelling without characters
C6_Witness ==
    /\ parsed
    /\ spellingState.phase = "spelling"
    /\ spellingState.startWord # Null
    /\ spellingState.characters = <<>>

\* the rule of C7, stated on the strings
isPrefixOf(a, b) == \E k \in 0..Len(b) : a = SubSeq(b, 1, k)
lettersOnly(x) == SelectSeq(trim(toLowerCase(x)), IsLowerAZ)
agreeing(a, b) ==
    Cardinality({i \in 1..Min(Len(a), Len(b)) : a[i] = b[i]})
similarByRule(s, t) ==
    LET a == lettersOnly(s)
        b == lettersOnly(t)
    IN  \/ trim(toLowerCase(s)) = trim(toLowerCase(t))
        \/ a = b
        \/ /\ Len(a) >= 3
           /\ Len(b) >= 3
           /\ \/ isPrefixOf(a, b)
              \/ isPrefixOf(b, a)
              \/ 10 * agreeing(a, b) >= 7 * Max(Len(a), Len(b))

\* C7: the matcher returns true iff the two are equal once lowercased and
\* trimmed, or equal once every non a-z character is removed, or both
\* letter strings have length >= 3 and one is a prefix of the other or ten
\* times the agreeing positions is at least seven times the longer length;
\* "ca" does not match "cat", and "cat" does not match "dog".
C7_MatcherRule ==
    similar # Null =>
        /\ similar[1] = similarByRule(spoken, target)
        /\ (spoken = w_ca /\ target = w_cat) => similar = Some(FALSE)
        /\ (spoken = w_cat /\ target = w_dog) => similar = Some(FALSE)
        /\ (Len(lettersOnly(spoken)) < 3 \/ Len(lettersOnly(target)) < 3) =>
             (similar[1] <=> lettersOnly(spoken) = lettersOnly(target))

\* a match by the 70% rule alone: three of four positions agree
C7_Witness ==
    /\ similar = Some(TRUE)
    /\ Len(lettersOnly(spoken)) = 4
    /\ Len(lettersOnly(target)) = 4
    /\ agreeing(lettersOnly(spoken), lettersOnly(target)) = 3

\* C8: the spoken token "aple" matches the target "apple".
C8_ApleMatchesApple ==
    (similar # Null /\ spoken = w_aple /\ target = w_apple) => similar = Some(TRUE)

\* the characters the classifier is said to yield
spellable == UpperLetters \cup {" ", "'", "-", ".", ","}
wordOf(c) == <<c>>
classifiedAs(token) ==
    IF token \in DOMAIN SPECIAL_CHAR_MAP THEN Some(SPECIAL_CHAR_MAP[token])
    ELSE IF token \in {wordOf(c) : c \in LowerLetters} THEN Some(toUpperChar(token[1]))
    ELSE IF token \in DOMAIN phoneticMap THEN Some(phoneticMap[token])
    ELSE Null

\* C9: the classifier maps the names of the special characters to them,
\* a single a-z character to its uppercase, a letter name to its letter
\* ("bee" to B) and every other token to "not a letter"; so every element
\* of characters is one of A-Z, space, apostrophe, hyphen, period, comma.
C9_ClassifierTable ==
    parsed =>
        /\ extractSingleLetter(w_bee) = Some("B")
        /\ extractSingleLetter(w_space) = Some(" ")
        /\ \A i \in 1..Len(parsedTokens) :
              extractSingleLetter(parsedTokens[i]) = classifiedAs(parsedTokens[i])
        /\ \A i \in 1..Len(spellingState.characters) :
              spellingState.characters[i] \in spellable

\* C10: every letter A-Z has a spoken form that decodes to it, and the
\* utterances "double u" and "double you" said while spelling each add the
\* single character W to characters.
C10_DoubleUIsW ==
    /\ \A c \in UpperLetters :
          \E token \in DOMAIN phoneticMap \cup {wordOf(l) : l \in LowerLetters} :
              extractSingleLetter(token) = Some(c)
    /\ \A u \in {w_double_u, w_double_you} :
          (parsed /\ targetWordRef = Some(w_cow)
                  /\ fullText = w_cow \o <<" ", "c", " ", "o", " ">> \o u) =>
              spellingState.characters = <<"C", "O", "W">>

---------------------------------------------------------------------------
(* The session controller: claims C11 to C20.                              *)

\* C11: an auto-stop timeout set during a session that has since ended
\* never stops the recognizer; a stale timeout that runs while a later
\* session is starting or running leaves that session's recognizer alone.
C11_StaleTimerLeavesLaterSession ==
    [][(/\ staleTimers > 0
        /\ lastEvent' = "timeout"
        /\ recognizer \in {"starting", "running"})
          => recognizer' = recognizer]_vars

\* "hello world" parsed against a target that is never said
helloWorld ==
    processTranscript(w_hello \o <<" ">> \o w_world, Some(w_apple),
                      Some("recognition"))

\* C12: a transcript update sets one auto-stop timeout if the phase it
\* derives is word2 and none otherwise ("hello world" with an unsaid
\* target: phase word1, no characters, none set); the update itself sends
\* nothing to the recognizer, a stop request comes only from a timeout
\* that runs later or from stopListening.
C12_AutoStopSetIffWord2 ==
    [][/\ lastEvent' = "onresult" =>
            /\ timers' = IF spellingState'.phase = "word2"
                         THEN timers + 1 ELSE timers
            /\ request' = "none"
            /\ recognizer' = recognizer
       /\ request' = "stop" => lastEvent' \in {"timeout", "stopListening"}
       /\ helloWorld.spellingState.phase = "word1"
       /\ helloWorld.characters = <<>>
       /\ ~helloWorld.autoStop]_vars

\* an update has just derived word2 in a running session: the timeout is
\* pending and nothing was sent to the recognizer
C12_Witness ==
    /\ lastEvent = "onresult"
    /\ spellingState.phase = "word2"
    /\ spellingState.startWord # Null
    /\ timers = 1
    /\ request = "none"
    /\ recognizer = "running"

\* a transcript update has just derived word2 while listening
word2WhileListening ==
    /\ lastEvent = "onresult"
    /\ isListening
    /\ spellingState.phase = "word2"

\* C13: after a transcript update that derives word2 while listening, if
\* timeouts run and the recognizer answers a stop request with its end
\* event, a stop request is sent to the recognizer and isListening becomes
\* false, with no call of stopListening needed.
C13_Word2LeadsToStop ==
    /\ word2WhileListening ~> (request = "stop" /\ lastEvent = "timeout")
    /\ word2WhileListening ~> ~isListening

\* the timeout has just stopped the running session it was set in
C13_Witness ==
    /\ lastEvent = "timeout"
    /\ request = "stop"
    /\ recognizer = "stopping"
    /\ isListening
    /\ spellingState.phase = "word2"
    /\ staleTimers = 0

\* the data of an attempt
sessionData == <<transcript, fullTranscript, characters, spellingState>>

\* a step that takes the session from listening to idle, or changes the
\* target word
idleOrRetarget ==
    \/ isListening /\ ~isListening'
    \/ targetWord' # targetWord

\* C14 as stated: when the session goes from listening to idle and when
\* the target word changes, transcript, characters and the attempt state
\* are discarded.
C14_DataDiscardedOnIdle ==
    [][idleOrRetarget =>
          /\ transcript' = <<>>
          /\ characters' = <<>>
          /\ spellingState'.characters = <<>>
          /\ spellingState'.startWord = Null
          /\ spellingState'.endWord = Null]_vars

\* C14 as the code has it: the end of a session and a change of the
\* target word leave transcript, full transcript, characters and the
\* attempt state as they were; only startListening, the recognizer's start
\* event, a transcript update and resetTranscript change them.
C14_DataKeptOnIdle ==
    [][/\ idleOrRetarget => sessionData' = sessionData
       /\ sessionData' # sessionData =>
             lastEvent' \in {"startListening", "onstart", "onresult",
                             "resetTranscript"}]_vars

\* an attempt is still stored after its session has ended and the target
\* word has changed
C14_Witness ==
    /\ lastEvent = "targetWord"
    /\ ~isListening
    /\ recognizer = "inactive"
    /\ characters # <<>>
    /\ spellingState.endWord # Null

\* C15: a transcript update is parsed against the target word the session
\* was started for: a change of the target word during a session ends
\* that session before any further update is parsed.
C15_UpdateParsedAgainstSessionTarget ==
    (lastEvent = "onresult" /\ sessionTarget # Null) =>
        targetWordRef = sessionTarget

\* C16: startListening called while isListening sends nothing to the
\* recognizer and changes no state; called while idle (with a recognizer)
\* it clears transcript, fullTranscript, characters and error, stores the
\* fresh attempt state of phase word1 and sends one start request.
C16_StartListening ==
    [][lastEvent' = "startListening" =>
          IF isListening
          THEN /\ request' = "none"
               /\ UNCHANGED <<hookVars, recognizer, results, timers>>
          ELSE recognitionRef # Null =>
                 /\ transcript' = <<>>
                 /\ fullTranscript' = <<>>
                 /\ characters' = <<>>
                 /\ error' = Null
                 /\ spellingState' =
                       [phase |-> "word1", startWord |-> Null,
                        characters |-> <<>>, endWord |-> Null,
                        skippedStartWord |-> FALSE]
                 /\ request' = "start"
                 /\ UNCHANGED <<isListening, isSupported, targetWord,
                                targetWordRef, recognitionRef, timers>>]_vars

\* start was called while idle after a session that ended with its timeout
\* pending: the stored values are clear and the recognizer is starting
C16_Witness ==
    /\ lastEvent = "startListening"
    /\ request = "start"
    /\ recognizer = "starting"
    /\ results = <<>>
    /\ characters = <<>>
    /\ error = Null
    /\ spellingState.phase = "word1"
    /\ staleTimers > 0

\* C17: the recognizer gets no start request while a session it was
\* started for has not yet ended or failed, the time before its start
\* event included.
C17_NoStartRequestDuringSession ==
    [][request' = "start" =>
          recognizer \notin {"starting", "running", "stopping"}]_vars

\* the parse of the results the recognizer has delivered
parseOfResults(rs) ==
    processTranscript(currentFullTranscript(rs), targetWordRef, recognitionRef)

\* C18: stopListening called while not listening sends nothing to the
\* recognizer and changes no state; called while listening it sends a stop
\* request and leaves isListening as it is. isListening becomes false only
\* in the recognizer's end or error event, and a transcript update that
\* arrives after the stop request and before that event is parsed and
\* stored like any other.
C18_StopListening ==
    [][/\ lastEvent' = "stopListening" =>
            /\ UNCHANGED <<hookVars, timers>>
            /\ IF isListening
               THEN request' = "stop"
               ELSE request' = "none" /\ UNCHANGED <<recognizer, results>>
       /\ (isListening /\ ~isListening') => lastEvent' \in {"onend", "onerror"}
       /\ (lastEvent' = "onresult" /\ recognizer = "stopping") =>
            /\ characters' = parseOfResults(results').characters
            /\ spellingState' = parseOfResults(results').spellingState
            /\ isListening' = isListening]_vars

\* an update that arrived after a stop request has been stored, and the
\* session still counts as listening
C18_Witness ==
    /\ lastEvent = "onresult"
    /\ recognizer = "stopping"
    /\ isListening
    /\ spellingState.phase = "spelling"
    /\ characters # <<>>
    /\ timers = 0

\* the kinds of recognizer error that are expected and not reported
benign == {"no-speech", "aborted"}

\* C19: a recognizer error of kind no-speech or aborted leaves error
\* unset, any other kind sets it to a string that names the kind; either way
\* isListening becomes false and nothing is sent to the recognizer: a start
\* request comes only from a call of startListening, and that call clears
\* the error.
C19_RecognizerError ==
    [][/\ lastEvent' = "onerror" =>
            /\ error' = IF errorEvent' \in benign
                        THEN Null ELSE Some(<<"Error: ", errorEvent'>>)
            /\ ~isListening'
            /\ request' = "none"
       /\ request' = "start" =>
            /\ lastEvent' = "startListening"
            /\ error' = Null]_vars

\* a network error has been reported and the session is idle
C19_Witness ==
    /\ lastEvent = "onerror"
    /\ errorEvent = "network"
    /\ error = Some(<<"Error: ", "network">>)
    /\ ~isListening
    /\ recognizer = "ending"
    /\ fullTranscript # <<>>

\* C20 as stated: with no session active (not listening, the recognizer
\* inactive) the stored phase is waiting, or complete once a session has
\* ended.
C20_IdlePhaseWaitingOrComplete ==
    (~isListening /\ recognizer = "inactive") =>
        spellingState.phase \in {"waiting", "complete"}

\* C20 as the code has it: the phase is waiting after mount and after
\* resetTranscript and is never complete; the step that ends a session
\* leaves the phase as the last parse stored it.
C20_PhaseKeptAtEnd ==
    /\ [](/\ spellingState.phase \in {"waiting", "word1", "spelling", "word2"}
          /\ lastEvent \in {"mount", "resetTranscript"} =>
                spellingState.phase = "waiting")
    /\ [][(isListening /\ ~isListening') =>
             spellingState'.phase = spellingState.phase]_vars

\* a session that reached word2 has ended, its timeout has run, and the
\* phase is still word2
C20_Witness ==
    /\ lastEvent = "onend"
    /\ ~isListening
    /\ recognizer = "inactive"
    /\ spellingState.phase = "word2"
    /\ timers = 0

---------------------------------------------------------------------------
(* Claims C21 to C30.                                                      *)

\* C21: on a platform without speech recognition isSupported is false
\* and there is no recognizer; startListening and stopListening send it
\* nothing, isListening is never true and the attempt state stays the
\* initial one of phase waiting.
C21_Unsupported ==
    /\ isSupported <=> recognitionRef # Null
    /\ ~isSupported =>
          /\ ~isListening
          /\ spellingState = freshState("waiting")
          /\ characters = <<>>
          /\ request = "none"
          /\ recognizer = "inactive"
          /\ timers = 0

\* startListening has been called on a platform without speech recognition
C21_Witness ==
    /\ ~isSupported
    /\ lastEvent = "startListening"
    /\ error # Null

\* the characters of the tokens that the letter scan decodes, in order
RECURSIVE decodeAll(_)
decodeAll(ts) ==
    IF ts = <<>> THEN <<>>
    ELSE LET letter == extractSingleLetter(Head(ts))
         IN  (IF letter # Null THEN <<letter[1]>> ELSE <<>>) \o decodeAll(Tail(ts))

\* C22: the preamble test and the letter scan classify alike: a token is
\* a letter token for the preamble iff the letter scan decodes it; so in a
\* transcript with no token that matches the target, characters is the
\* decoding of every decodable token, in order ("ef", "el", "es" said
\* first are kept).
C22_SameClassification ==
    parsed =>
        /\ \A i \in 1..Len(parsedTokens) :
              isLetterToken(parsedTokens[i])
                 <=> extractSingleLetter(parsedTokens[i]) # Null
        /\ (\A i \in 1..Len(parsedTokens) : ~matchesTarget(parsedTokens[i])) =>
              spellingState.characters = decodeAll(parsedTokens)

\* the least element of a non-empty set of numbers
least(S) == CHOOSE x \in S : \A y \in S : x <= y

\* the position (from 1) of the first token the letter scan reads: the one
\* after the start word, or the first letter token; 0 if there is none
scanFrom(ts) ==
    LET hits == {i \in 1..Len(ts) : matchesTarget(ts[i]) \/ isLetterToken(ts[i])}
    IN  IF hits = {} THEN 0
        ELSE IF matchesTarget(ts[least(hits)]) THEN least(hits) + 1
        ELSE least(hits)

\* the positions, from position s on, of tokens that match the target and
\* have a decoded character between s and them
closingAt(ts, s) ==
    {j \in s..Len(ts) :
        matchesTarget(ts[j]) /\ decodeAll(SubSeq(ts, s, j - 1)) # <<>>}

\* C23: in the letter scan the first token that matches the target after
\* a character has been decoded is stored as endWord and not decoded, also
\* when it is a letter name (target "you", token "you"); the tokens after
\* it are ignored, and characters is the decoding of the tokens before it.
C23_EndWordEndsTheScan ==
    parsed =>
        LET ts == parsedTokens
            s  == scanFrom(ts)
            ends == IF s = 0 THEN {} ELSE closingAt(ts, s)
        IN  IF s = 0
            THEN spellingState.characters = <<>> /\ spellingState.endWord = Null
            ELSE IF ends = {}
            THEN /\ spellingState.endWord = Null
                 /\ spellingState.characters = decodeAll(SubSeq(ts, s, Len(ts)))
            ELSE /\ spellingState.endWord = Some(ts[least(ends)])
                 /\ spellingState.phase = "word2"
                 /\ spellingState.characters =
                       decodeAll(SubSeq(ts, s, least(ends) - 1))

\* "c you you" for the target "you": the first "you" closes the attempt,
\* neither it nor the second adds a U
C23_Witness ==
    /\ parsed
    /\ targetWordRef = Some(w_you)
    /\ parsedTokens = <<<<"c">>, w_you, w_you>>
    /\ spellingState.endWord = Some(w_you)
    /\ spellingState.characters = <<"C">>

\* the parse of the first k tokens of the parsed transcript
parseOfFirst(k) ==
    processTranscript(join(SubSeq(parsedTokens, 1, k)), targetWordRef,
                      recognitionRef)

\* C24: for every transcript T and every continuation U of it (same
\* target) the characters of T are a prefix of the characters of T U, a
\* start word or skipped start decided for T is the same for T U, and if T
\* parses to word2 then T U parses to what T parses to.
C24_AppendingTokens ==
    parsed =>
        \A k \in 0..Len(parsedTokens) :
            LET short == parseOfFirst(k).spellingState
            IN  /\ isPrefixOf(short.characters, spellingState.characters)
                /\ (short.startWord # Null \/ short.skippedStartWord) =>
                      /\ spellingState.startWord = short.startWord
                      /\ spellingState.skippedStartWord = short.skippedStartWord
                /\ short.phase = "word2" =>
                      /\ spellingState = short
                      /\ characters = parseOfFirst(k).characters

\* "c cat a" for the target "cat": "c cat" is word2 already and the "a"
\* that follows changes nothing
C24_Witness ==
    /\ parsed
    /\ targetWordRef = Some(w_cat)
    /\ parsedTokens = <<<<"c">>, w_cat, <<"a">>>>
    /\ parseOfFirst(2).spellingState.phase = "word2"
    /\ spellingState.characters = <<"C">>

\* ts without its i-th token
without(ts, i) == SubSeq(ts, 1, i - 1) \o SubSeq(ts, i + 1, Len(ts))

\* a token that does not match the target and that the classifier does not
\* decode to a character
isNoise(token) == ~matchesTarget(token) /\ extractSingleLetter(token) = Null

\* C25: a token that neither matches the target nor is decoded to a
\* character can be put anywhere into a transcript without changing what
\* the parser stores: the parse with the token equals the parse without.
C25_NoiseInsensitive ==
    parsed =>
        \A i \in 1..Len(parsedTokens) :
            isNoise(parsedTokens[i]) =>
                LET quiet == processTranscript(join(without(parsedTokens, i)),
                                               targetWordRef, recognitionRef)
                IN  /\ spellingState = quiet.spellingState
                    /\ characters = quiet.characters

\* "hello" said between the start word and a letter
C25_Witness ==
    /\ parsed
    /\ targetWordRef = Some(w_cat)
    /\ parsedTokens = <<w_cat, w_hello, <<"c">>>>
    /\ spellingState.startWord = Some(w_cat)
    /\ spellingState.characters = <<"C">>

\* C26: at most one auto-stop timeout is pending at any time: the
\* transcript updates of one session that derive word2 set one timeout
\* between them, however many they are.
C26_OneAutoStopPending ==
    timers - staleTimers <= 1

\* C27: after resetTranscript in a running session the stored attempt
\* reflects only what is transcribed after the reset: the first update after
\* it that brings a new result stores the parse of that result alone.
C27_ResetForgetsEarlierSpeech ==
    [][(/\ lastEvent = "resetTranscript"
        /\ lastEvent' = "onresult"
        /\ Len(results) > 0
        /\ Len(results') = Len(results) + 1)
          => LET fresh == parseOfResults(<<results'[Len(results')]>>)
             IN  /\ characters' = fresh.characters
                 /\ spellingState' = fresh.spellingState]_vars

\* C28: for one presentation of a word the score is raised at most
\* once: no step raises the score of a presentation that has already been
\* checked and found correct, whatever the order of the submit timeouts,
\* the auto-check timeout and the clicks.
C28_ScoredOncePerPresentation ==
    [][score' > score => ~(hasChecked /\ isCorrect)]_vars

\* C29: whenever no lookup is in flight, the wordData shown for a word
\* is that word's: the late answer to the lookup of an earlier word does not
\* replace it.
C29_DataBelongsToWord ==
    (pending = <<>> /\ word # <<>> /\ wordData # Null) =>
        wordData[1].word = toLowerCase(word)

\* C30: the similarity matcher is symmetric: the answer for a pair of
\* strings is the answer for the pair the other way round.
C30_Symmetric ==
    similar # Null => similar[1] = wordsSoundSimilar(target, spoken)

\* a word matched as the beginning of a longer one that shares fewer than
\* 70% of its positions with it
C30_Witness ==
    /\ spoken = w_cat
    /\ target = w_catch
    /\ similar = Some(TRUE)

=============================================================================
